---- MODULE Spec2Model ----
(***************************************************************************)
(* State-machine model of the wealth-of-cities core: models.Model (city   *)
(* count, params, cached symbolic artifacts), solvers.Solver (cached      *)
(* compiled functions, system / jacobian / solve) and the initial-guess    *)
(* strategies of solvers.py.                                               *)
(*                                                                         *)
(* Numbers the code only moves around (entries of X, island solutions,     *)
(* root-finder results) are symbolic values [t, a, b]; symbolic equations  *)
(* and unknowns are records [name, h].  Python exceptions are the `err`    *)
(* field of the observation record `last` of the operation that ran last.  *)
(***************************************************************************)
EXTENDS Integers, Sequences, FiniteSets, TLC

\* ------------------------------------------------------------------ bounds
\* Largest city count a caller assigns; also the length of the data arrays.
MaxN == 3
\* Number of distinct parameter dictionaries (object identities) in play.
MaxVer == 2

VARIABLES
    constructed,          \* a Model instance exists (Model.__init__ returned)
    N,                    \* Model._N
    params,               \* Model._params
    number_cities,        \* plain instance attribute model.number_cities
    physical_distances,   \* Model._physical_distances
    population,           \* Model.population
    symbolic_equations,   \* Model.__symbolic_equations
    symbolic_jacobian,    \* Model.__symbolic_jacobian
    symbolic_variables,   \* Model.__symbolic_variables
    numeric_system,       \* Solver.__numeric_system
    numeric_jacobian,     \* Solver.__numeric_jacobian
    city,                 \* InitialGuess.__city of the IslandsGuess and of the HotStartGuess object
    solver_kwargs,        \* HotStartGuess._solver_kwargs
    solution,             \* HotStartGuess.__solution
    pc,                   \* where a read of HotStartGuess.guess stands
    step,                 \* the loop variable number_cities of HotStartGuess.guess
    target,               \* the end of its range: self.number_cities when the loop began
    solves,               \* solves that returned during this read of guess
    prev,                 \* history: the equation cache the last N assignment discarded
    last                  \* observation: the operation that ran last

modelVars == <<constructed, N, params, number_cities,
               symbolic_equations, symbolic_jacobian, symbolic_variables>>
solverVars == <<numeric_system, numeric_jacobian>>
hotVars == <<city, solver_kwargs, solution, pc, step, target, solves>>
dataVars == <<physical_distances, population>>
vars == <<constructed, N, params, number_cities, physical_distances, population,
          symbolic_equations, symbolic_jacobian, symbolic_variables,
          numeric_system, numeric_jacobian,
          city, solver_kwargs, solution, pc, step, target, solves, prev, last>>

\* ------------------------------------------------------- Python plumbing
\* A cached attribute is None or holds a value.
NoneVal == [built |-> FALSE, val |-> <<>>]
Cached(v) == [built |-> TRUE, val |-> v]

\* range(a, b) as a sequence.
Range(a, b) == [i \in 1..(IF b > a THEN b - a ELSE 0) |-> a + i - 1]

\* [sym[h] for h in rng]
Indexed(name, rng) == [i \in 1..Len(rng) |-> [name |-> name, h |-> rng[i]]]

\* Values a caller may assign as a city count: ints and floats.
NumberValues == [kind : {"int", "float"}, val : (-1)..MaxN]

\* Values a caller may assign as params: a dict with some keys, or a tuple.
ParamKeys == {"f", "beta", "phi", "tau", "theta", "elasticity_substitution"}
CompiledParams == {"f", "beta", "phi", "tau", "theta"}
\* Key sets tried: at most one of f, beta, phi, tau, theta missing, with or
\* without a key the compiled functions do not know; and the empty dict.
ParamKeySets ==
    {ks \in SUBSET ParamKeys : Cardinality(CompiledParams \ ks) <= 1} \cup {{}}
ParamValues ==
    [isDict : {TRUE}, keys : ParamKeySets, ver : {1}]
    \cup [isDict : {TRUE}, keys : {CompiledParams}, ver : 2..MaxVer]
    \cup [isDict : {FALSE}, keys : {{}}, ver : {1}]

NoParams == [isDict |-> FALSE, keys |-> {}, ver |-> 0]
NoAttr == [set |-> FALSE, val |-> 0]
Attr(v) == [set |-> TRUE, val |-> v]

NoCity == [built |-> FALSE, params |-> NoParams]
NoKwargs == [set |-> FALSE, method |-> "none", with_jacobian |-> FALSE]

Raise(e) == [raised |-> TRUE, err |-> e, val |-> 0]
Return(v) == [raised |-> FALSE, err |-> "none", val |-> v]

\* The data a Model is constructed with: a population vector and a square
\* matrix of pairwise physical distances, for DataCities cities.
DataCities == MaxN
StoredPopulation == [h \in 1..DataCities |-> [t |-> "population", a |-> h - 1, b |-> 0]]
StoredDistances ==
    [i \in 1..DataCities |->
        [j \in 1..DataCities |-> [t |-> "distance", a |-> i - 1, b |-> j - 1]]]

\* ------------------------------------------------------------ models.Model
\* Model._validate_number_cities
validate_number_cities(value) ==
    IF value.kind # "int" THEN Raise("AttributeError")
    ELSE IF value.val < 1 THEN Raise("AttributeError")
    ELSE Return(value.val)

\* Model._validate_params
required_params == {"f", "beta", "phi", "tau"}

C17MutantValidateParams(p) ==
    IF ~p.isDict THEN [raised |-> TRUE, err |-> "AttributeError", val |-> NoParams]
    ELSE IF p.keys # required_params
         THEN [raised |-> TRUE, err |-> "AttributeError", val |-> NoParams]
    ELSE [raised |-> FALSE, err |-> "none", val |-> p]

validate_params(p) ==
    IF ~p.isDict THEN [raised |-> TRUE, err |-> "AttributeError", val |-> NoParams]
    ELSE IF ~(required_params \subseteq p.keys)
         THEN [raised |-> TRUE, err |-> "AttributeError", val |-> NoParams]
    ELSE [raised |-> FALSE, err |-> "none", val |-> p]

\* Model._symbolic_variables, the list built when the cache is empty.
C6MutantBuildVariables(n) ==
    Indexed("P", Range(0, n)) \o Indexed("Y", Range(0, n))
    \o Indexed("W", Range(0, n)) \o Indexed("M", Range(0, n))

build_symbolic_variables(n) ==
    Indexed("P", Range(1, n)) \o Indexed("Y", Range(0, n))
    \o Indexed("W", Range(0, n)) \o Indexed("M", Range(0, n))

\* Model._symbolic_equations, the list built when the cache is empty.
build_symbolic_equations(n) ==
    Indexed("goods_market_clearing", Range(1, n))
    \o Indexed("total_profits", Range(0, n))
    \o Indexed("labor_market_clearing", Range(0, n))
    \o Indexed("resource_constraint", Range(0, n))

\* sym.Matrix(eqns).jacobian(variables): the Len(eqns) x Len(variables) matrix
\* whose entry (i, j) is d eqns[i] / d variables[j], held as its row labels
\* and its column labels.
build_symbolic_jacobian(eqns, variables) == <<eqns, variables>>

\* Model._clear_cache
C4MutantClearCache ==
    UNCHANGED <<symbolic_equations, symbolic_jacobian, symbolic_variables>>

clear_cache ==
    /\ symbolic_equations' = NoneVal
    /\ symbolic_jacobian' = NoneVal
    /\ symbolic_variables' = NoneVal

\* The value the _symbolic_equations getter returns from the current state.
EquationsGet ==
    IF symbolic_equations.built THEN symbolic_equations.val
    ELSE build_symbolic_equations(N)

\* The value the _symbolic_variables getter returns from the current state.
VariablesGet ==
    IF symbolic_variables.built THEN symbolic_variables.val
    ELSE build_symbolic_variables(N)

\* The value the _symbolic_jacobian getter returns from the current state.
JacobianGet ==
    IF symbolic_jacobian.built THEN symbolic_jacobian.val
    ELSE build_symbolic_jacobian(EquationsGet, VariablesGet)

\* Model.__init__: the N setter, then the params setter; an exception in
\* either leaves no instance behind.
Construct(value, p) ==
    /\ ~constructed
    /\ LET rn == validate_number_cities(value)
           rp == validate_params(p)
       IN IF rn.raised
          THEN /\ last' = [op |-> "init", arg |-> value, parg |-> p,
                           err |-> rn.err, setter |-> "N"]
               /\ UNCHANGED <<modelVars, solverVars, prev, hotVars, dataVars>>
          ELSE IF rp.raised
          THEN /\ last' = [op |-> "init", arg |-> value, parg |-> p,
                           err |-> rp.err, setter |-> "params"]
               /\ UNCHANGED <<modelVars, solverVars, prev, hotVars, dataVars>>
          ELSE /\ constructed' = TRUE
               /\ N' = rn.val
               /\ clear_cache
               /\ params' = rp.val
               /\ physical_distances' = StoredDistances
               /\ population' = StoredPopulation
               /\ last' = [op |-> "init", arg |-> value, parg |-> p,
                           err |-> "none", setter |-> "none"]
               /\ UNCHANGED <<number_cities, solverVars, prev, hotVars>>

\* Model.N setter
C27MutantSetN(value) ==
    /\ constructed
    /\ clear_cache
    /\ LET r == validate_number_cities(value)
       IN IF r.raised
          THEN /\ last' = [op |-> "setN", arg |-> value, err |-> r.err]
               /\ UNCHANGED <<constructed, N, params, number_cities, solverVars,
                              prev, hotVars, dataVars>>
          ELSE /\ N' = r.val
               /\ prev' = symbolic_equations
               /\ last' = [op |-> "setN", arg |-> value, err |-> "none"]
               /\ UNCHANGED <<constructed, params, number_cities, solverVars,
                              hotVars, dataVars>>

SetN(value) ==
    /\ constructed
    /\ LET r == validate_number_cities(value)
       IN IF r.raised
          THEN /\ last' = [op |-> "setN", arg |-> value, err |-> r.err]
               /\ UNCHANGED <<modelVars, solverVars, prev, hotVars, dataVars>>
          ELSE /\ N' = r.val
               /\ clear_cache
               /\ prev' = symbolic_equations
               /\ last' = [op |-> "setN", arg |-> value, err |-> "none"]
               /\ UNCHANGED <<constructed, params, number_cities, solverVars, hotVars, dataVars>>

\* model.number_cities = value: Model defines no such property, so this
\* binds a plain instance attribute (InitialGuess.number_cities setter,
\* HotStartGuess.guess and the tests assign it).
SetNumberCities(value) ==
    /\ constructed
    /\ number_cities' = Attr(value)
    /\ last' = [op |-> "setNumberCities", arg |-> value, err |-> "none"]
    /\ UNCHANGED <<constructed, N, params, symbolic_equations, symbolic_jacobian,
                   symbolic_variables, solverVars, prev, hotVars, dataVars>>

\* Model.params setter
C29MutantSetParams(p) ==
    /\ constructed
    /\ LET r == validate_params(p)
       IN IF r.raised
          THEN /\ last' = [op |-> "setParams", parg |-> p, err |-> r.err]
               /\ UNCHANGED <<modelVars, solverVars, prev, hotVars, dataVars>>
          ELSE /\ params' = r.val
               /\ clear_cache
               /\ last' = [op |-> "setParams", parg |-> p, err |-> "none"]
               /\ UNCHANGED <<constructed, N, number_cities, solverVars, prev,
                              hotVars, dataVars>>

SetParams(p) ==
    /\ constructed
    /\ LET r == validate_params(p)
       IN IF r.raised
          THEN /\ last' = [op |-> "setParams", parg |-> p, err |-> r.err]
               /\ UNCHANGED <<modelVars, solverVars, prev, hotVars, dataVars>>
          ELSE /\ params' = r.val
               /\ last' = [op |-> "setParams", parg |-> p, err |-> "none"]
               /\ UNCHANGED <<constructed, N, number_cities, symbolic_equations,
                              symbolic_jacobian, symbolic_variables, solverVars, prev, hotVars, dataVars>>

\* Model._symbolic_equations getter
GetSymbolicEquations ==
    /\ constructed
    /\ symbolic_equations' = Cached(EquationsGet)
    /\ last' = [op |-> "equations", ret |-> EquationsGet, err |-> "none"]
    /\ UNCHANGED <<constructed, N, params, number_cities, symbolic_jacobian,
                   symbolic_variables, solverVars, prev, hotVars, dataVars>>

\* Model._symbolic_variables getter
GetSymbolicVariables ==
    /\ constructed
    /\ symbolic_variables' = Cached(VariablesGet)
    /\ last' = [op |-> "variables", ret |-> VariablesGet, err |-> "none"]
    /\ UNCHANGED <<constructed, N, params, number_cities, symbolic_jacobian,
                   symbolic_equations, solverVars, prev, hotVars, dataVars>>

\* Model._symbolic_jacobian getter; building it reads (and so fills) the
\* equation and variable caches.
GetSymbolicJacobian ==
    /\ constructed
    /\ IF symbolic_jacobian.built
       THEN UNCHANGED <<symbolic_equations, symbolic_variables, symbolic_jacobian>>
       ELSE /\ symbolic_equations' = Cached(EquationsGet)
            /\ symbolic_variables' = Cached(VariablesGet)
            /\ symbolic_jacobian' = Cached(JacobianGet)
    /\ last' = [op |-> "jacobian", ret |-> JacobianGet, err |-> "none"]
    /\ UNCHANGED <<constructed, N, params, number_cities, solverVars, prev, hotVars, dataVars>>

\* ----------------------------------------------------------- Python slices
\* A symbolic number: the constant 1.0, an entry of a caller's vector, ...
One == [t |-> "one", a |-> 0, b |-> 0]

\* The bound a slice uses for index i of a sequence of length n.
SliceIndex(i, n) ==
    IF i < 0 THEN (IF i + n < 0 THEN 0 ELSE i + n)
    ELSE (IF i > n THEN n ELSE i)

\* X[a:b] (0-based, half-open, clamped)
Slice(X, a, b) == SubSeq(X, SliceIndex(a, Len(X)) + 1, SliceIndex(b, Len(X)))

\* X[a:]
SliceFrom(X, a) == Slice(X, a, Len(X))

\* Vectors a caller passes as X or as an initial guess: one of each length
\* 4n-1, n a city count (it may or may not be the model's).
InputVector(len) == [i \in 1..len |-> [t |-> "in", a |-> i, b |-> 0]]
InputVectors == {InputVector(4 * n - 1) : n \in 1..MaxN}

\* ------------------------------------------------ models.Model: the data
\* Model.physical_distances (getter): self._physical_distances[:N, :N].
C16MutantPhysicalDistancesGet == physical_distances

PhysicalDistancesGet ==
    LET rows == Slice(physical_distances, 0, N)
    IN [i \in 1..Len(rows) |-> Slice(rows[i], 0, N)]

\* Model.economic_distances: exp(self.physical_distances)**tau, elementwise.
EconomicDistancesGet ==
    LET d == PhysicalDistancesGet
    IN [i \in 1..Len(d) |-> [j \in 1..Len(d[i]) |-> [t |-> "exp^tau", of |-> d[i][j]]]]

\* Model.effective_labor_supply: sym.Matrix([beta * self.population]), a
\* matrix of one row with an entry per entry of self.population.
EffectiveLaborSupplyGet ==
    [i \in 1..Len(population) |-> [t |-> "beta*", of |-> population[i]]]

GetPhysicalDistances ==
    /\ constructed
    /\ last' = [op |-> "physical_distances", n |-> N, err |-> "none",
                ret |-> PhysicalDistancesGet]
    /\ UNCHANGED <<modelVars, solverVars, prev, hotVars, dataVars>>

GetEconomicDistances ==
    /\ constructed
    /\ last' = [op |-> "economic_distances", n |-> N, err |-> "none",
                ret |-> EconomicDistancesGet]
    /\ UNCHANGED <<modelVars, solverVars, prev, hotVars, dataVars>>

GetEffectiveLaborSupply ==
    /\ constructed
    /\ last' = [op |-> "effective_labor_supply", n |-> N, err |-> "none",
                ret |-> EffectiveLaborSupplyGet]
    /\ UNCHANGED <<modelVars, solverVars, prev, hotVars, dataVars>>

\* ------------------------------------------- models.Model: the economics
\* Symbolic expressions are kept as the code composes them; cities are
\* indexed from 0.  A sum is the sequence of its terms.
labor_productivity(h, j) == [t |-> "phi/", d |-> EconomicDistancesGet[h + 1][j + 1]]
marginal_costs(h, j) == [t |-> "W/", W |-> h, by |-> labor_productivity(h, j)]
mark_up(j) == [t |-> "theta/(theta-1)", theta |-> j]
optimal_price(h, j) == [t |-> "*", l |-> mark_up(j), r |-> marginal_costs(h, j)]
real_gdp(i) == [t |-> "Y/P", Y |-> i, P |-> i]
relative_price(price, j) == [t |-> "/P", price |-> price, P |-> j]
quantity_demand(price, j) ==
    [t |-> "demand", rel |-> relative_price(price, j), theta |-> j, gdp |-> real_gdp(j)]
revenue(price, quantity) == [t |-> "*", l |-> price, r |-> quantity]

\* Model.total_exports(h): the terms num_firms[h] * revenue, j over range(N).
total_exports(h) ==
    [i \in 1..N |->
        LET j == i - 1
            p_star == optimal_price(h, j)
            q_star == quantity_demand(p_star, j)
        IN [t |-> "M*", M |-> h, r |-> revenue(p_star, q_star)]]

\* Model.total_imports(h): the terms num_firms[j] * revenue, j over range(N).
C14MutantTotalImports(h) ==
    [i \in 1..N |->
        LET j == i - 1
            p_star == optimal_price(j, h)
            q_star == quantity_demand(p_star, j)
        IN [t |-> "M*", M |-> j, r |-> revenue(p_star, q_star)]]

total_imports(h) ==
    [i \in 1..N |->
        LET j == i - 1
            p_star == optimal_price(j, h)
            q_star == quantity_demand(p_star, h)
        IN [t |-> "M*", M |-> j, r |-> revenue(p_star, q_star)]]

\* Model.goods_market_clearing(h): total_exports(h) - total_imports(h).
goods_market_clearing(h) == [plus |-> total_exports(h), minus |-> total_imports(h)]

\* sum(goods_market_clearing(h) for h in range(N)): the terms added and the
\* terms subtracted.
RECURSIVE SumClearing(_)
SumClearing(n) ==
    IF n = 0 THEN [plus |-> <<>>, minus |-> <<>>]
    ELSE LET rest == SumClearing(n - 1)
             g == goods_market_clearing(n - 1)
         IN [plus |-> rest.plus \o g.plus, minus |-> rest.minus \o g.minus]

\* Evaluating the goods-market conditions of all cities and adding them up.
GoodsMarketBalance ==
    /\ constructed
    /\ last' = [op |-> "balance", n |-> N, err |-> "none",
                first |-> goods_market_clearing(0), ret |-> SumClearing(N)]
    /\ UNCHANGED <<modelVars, solverVars, prev, hotVars, dataVars>>

\* ---------------------------------------------------------- solvers.Solver
\* Model._symbolic_args: the parameters of every compiled function, in order.
symbolic_args == <<"P", "Y", "W", "M", "f", "beta", "phi", "tau", "theta">>

\* The positional arguments of the call in Solver.system and Solver.jacobian.
call_positional == <<"P", "Y", "W", "M", "population">>

\* Python's binding of a call fn(*positional, **keywords) to the parameter
\* list `names`: the errors the call can end with ("none": it binds).  The
\* keywords are bound in the dict's iteration order, so when one keyword hits
\* a parameter already bound positionally and another names no parameter,
\* either error may be the one raised; a parameter left unbound is reported
\* only after every keyword was bound.
BindOutcomes(names, positional, keywords) ==
    LET known == {names[i] : i \in 1..Len(names)}
        byPosition == {names[i] : i \in 1..(IF positional < Len(names)
                                             THEN positional ELSE Len(names))}
        multiple == keywords \cap byPosition
        unexpected == keywords \ known
        missing == known \ (byPosition \cup keywords)
        whileBinding ==
            (IF multiple # {} THEN {"TypeError: multiple values"} ELSE {})
            \cup (IF unexpected # {} THEN {"TypeError: unexpected keyword"} ELSE {})
    IN IF positional > Len(names) THEN {"TypeError: too many positional"}
       ELSE IF whileBinding # {} THEN whileBinding
       ELSE IF missing # {} THEN {"TypeError: missing argument"}
       ELSE {"none"}

\* The four blocks Solver.system and Solver.jacobian cut out of X, n being
\* model.number_cities.
BlockP(X, n) == <<One>> \o Slice(X, 0, n - 1)
C7MutantBlockY(X, n) == Slice(X, n, 2 * n)

BlockY(X, n) == Slice(X, n - 1, 2 * n - 1)
BlockW(X, n) == Slice(X, 2 * n - 1, 3 * n - 1)
BlockM(X, n) == SliceFrom(X, 3 * n - 1)

\* Solver._numeric_system getter: the function it returns, and its effect
\* (lambdify reads model._symbolic_system, which fills the equation cache).
SystemFn ==
    IF numeric_system.built THEN numeric_system.val
    ELSE <<symbolic_args, EquationsGet>>

UseNumericSystem ==
    /\ numeric_system' = Cached(SystemFn)
    /\ symbolic_equations' =
          IF numeric_system.built THEN symbolic_equations ELSE Cached(EquationsGet)

\* Solver._numeric_jacobian getter: the function it returns, and its effect
\* (lambdify reads model._symbolic_jacobian, which fills the model's caches).
JacobianFn ==
    IF numeric_jacobian.built THEN numeric_jacobian.val
    ELSE <<symbolic_args, JacobianGet>>

UseNumericJacobian ==
    /\ numeric_jacobian' = Cached(JacobianFn)
    /\ IF numeric_jacobian.built \/ symbolic_jacobian.built
       THEN UNCHANGED <<symbolic_equations, symbolic_variables, symbolic_jacobian>>
       ELSE /\ symbolic_equations' = Cached(EquationsGet)
            /\ symbolic_variables' = Cached(VariablesGet)
            /\ symbolic_jacobian' = Cached(JacobianGet)

\* residual.ravel(): one residual per compiled equation.
Residual(fn) == [i \in 1..Len(fn[2]) |-> [t |-> "residual", a |-> i, b |-> 0]]

\* The Jacobian a compiled Jacobian function returns: its matrix, evaluated.
JacobianValue(fn) == fn[2]

\* Solver.system(X)
SolverSystem(X) ==
    /\ constructed
    /\ IF ~number_cities.set
       THEN /\ last' = [op |-> "system", X |-> X, called |-> FALSE,
                        err |-> "AttributeError"]
            /\ UNCHANGED <<modelVars, solverVars, prev, hotVars, dataVars>>
       ELSE \E outcome \in BindOutcomes(symbolic_args, Len(call_positional), params.keys) :
            LET n == number_cities.val.val
            IN /\ UseNumericSystem
               /\ last' = [op |-> "system", X |-> X, called |-> TRUE, n |-> n,
                           P |-> BlockP(X, n), Y |-> BlockY(X, n),
                           W |-> BlockW(X, n), M |-> BlockM(X, n),
                           fn |-> SystemFn, err |-> outcome,
                           ret |-> IF outcome = "none" THEN Residual(SystemFn) ELSE <<>>]
               /\ UNCHANGED <<constructed, N, params, number_cities, symbolic_jacobian,
                              symbolic_variables, numeric_jacobian, prev, hotVars, dataVars>>

\* Solver.jacobian(X)
SolverJacobian(X) ==
    /\ constructed
    /\ IF ~number_cities.set
       THEN /\ last' = [op |-> "jacobian_at", X |-> X, called |-> FALSE,
                        err |-> "AttributeError"]
            /\ UNCHANGED <<modelVars, solverVars, prev, hotVars, dataVars>>
       ELSE \E outcome \in BindOutcomes(symbolic_args, Len(call_positional), params.keys) :
            LET n == number_cities.val.val
            IN /\ UseNumericJacobian
               /\ last' = [op |-> "jacobian_at", X |-> X, called |-> TRUE, n |-> n,
                           P |-> BlockP(X, n), Y |-> BlockY(X, n),
                           W |-> BlockW(X, n), M |-> BlockM(X, n),
                           fn |-> JacobianFn, err |-> outcome,
                           ret |-> IF outcome = "none" THEN JacobianValue(JacobianFn) ELSE <<>>]
               /\ UNCHANGED <<constructed, N, params, number_cities, numeric_system, prev, hotVars, dataVars>>

\* What the first evaluation of Solver.system by the root-finder can end with.
SystemErrors ==
    IF ~number_cities.set THEN {"AttributeError"}
    ELSE BindOutcomes(symbolic_args, Len(call_positional), params.keys)

\* The jac argument Solver.solve hands to optimize.root.
C9MutantJacobianArg(with_jacobian) == "Solver.jacobian"

jacobian_arg(with_jacobian) ==
    IF with_jacobian THEN "Solver.jacobian" ELSE "False"

\* The solution vector of a root-finder result: as long as the guess.
RootX(x0) == [i \in 1..Len(x0) |-> [t |-> "x", a |-> i, b |-> Len(x0)]]
NoResult == [x |-> <<>>, success |-> FALSE]
Methods == {"hybr", "lm"}

\* Solver.solve(initial_guess, method, with_jacobian): one call of
\* optimize.root(self.system, x0, jac, method).  The root-finder evaluates
\* self.system(x0) first; an exception raised there leaves optimize.root and
\* Solver.solve unhandled.  Otherwise it evaluates jac(x0) when jac is
\* callable and returns a result whose success flag is its own business.
SolverSolve(initial_guess, method, with_jacobian) ==
    /\ constructed
    /\ \E outcome \in SystemErrors :
       LET jac == jacobian_arg(with_jacobian)
           call == [op |-> "solve", x0 |-> initial_guess, method |-> method,
                    with_jacobian |-> with_jacobian, rootCalls |-> 1,
                    rootX0 |-> initial_guess, rootMethod |-> method,
                    rootJac |-> jac]
           fillsModel == jac = "Solver.jacobian" /\ ~numeric_jacobian.built
                         /\ ~symbolic_jacobian.built
       IN IF outcome = "AttributeError"
          THEN /\ last' = call @@ [err |-> outcome, returned |-> FALSE,
                                   jacobianEvals |-> 0, ret |-> NoResult,
                                   rootRet |-> NoResult]
               /\ UNCHANGED <<modelVars, solverVars, prev, hotVars, dataVars>>
          ELSE IF outcome # "none"
          THEN /\ UseNumericSystem
               /\ last' = call @@ [err |-> outcome, returned |-> FALSE,
                                   jacobianEvals |-> 0, ret |-> NoResult,
                                   rootRet |-> NoResult]
               /\ UNCHANGED <<constructed, N, params, number_cities, symbolic_jacobian,
                              symbolic_variables, numeric_jacobian, prev, hotVars, dataVars>>
          ELSE \E success \in BOOLEAN :
               LET result == [x |-> RootX(initial_guess), success |-> success]
               IN /\ numeric_system' = Cached(SystemFn)
                  /\ numeric_jacobian' = IF jac = "Solver.jacobian"
                                         THEN Cached(JacobianFn) ELSE numeric_jacobian
                  /\ symbolic_equations' =
                        IF numeric_system.built /\ ~fillsModel
                        THEN symbolic_equations ELSE Cached(EquationsGet)
                  /\ symbolic_variables' =
                        IF fillsModel THEN Cached(VariablesGet) ELSE symbolic_variables
                  /\ symbolic_jacobian' =
                        IF fillsModel THEN Cached(JacobianGet) ELSE symbolic_jacobian
                  /\ last' = call @@ [err |-> "none", returned |-> TRUE,
                                      jacobianEvals |-> IF jac = "Solver.jacobian"
                                                        THEN 1 ELSE 0,
                                      ret |-> result, rootRet |-> result]
                  /\ UNCHANGED <<constructed, N, params, number_cities, prev, hotVars, dataVars>>

\* -------------------------------------------------- solvers.InitialGuess
\* InitialGuess.guess of the base class: raise NotImplementedError.
C19MutantBaseGuess == Return(<<>>)

base_guess == Raise("NotImplementedError")

\* A read of guess on an instance of the base class InitialGuess.
InitialGuessGet ==
    /\ constructed
    /\ pc # "loop"
    /\ last' = [op |-> "baseguess", err |-> base_guess.err,
                produced |-> ~base_guess.raised]
    /\ UNCHANGED <<modelVars, solverVars, dataVars, prev, hotVars>>

\* ------------------------------------------------- models.SingleCityModel
\* SingleCityModel._symbolic_args: the parameters of its compiled functions.
single_city_args == <<"P", "f", "beta", "phi", "tau", "theta">>

\* The names an instance of SingleCityModel answers to: what the class and
\* its base class Model define.
city_attributes ==
    {"solution", "_numeric_gdp", "_numeric_wage", "_numeric_num_firms",
     "_symbolic_args", "_symbolic_solution", "_symbolic_equations",
     "_symbolic_jacobian", "_symbolic_system", "_symbolic_variables",
     "economic_distances", "effective_labor_supply", "N",
     "physical_distances", "population", "params"}

\* The methods HotStartGuess._guess_next_city calls on the single-city model.
island_methods ==
    {"compute_nominal_gdp", "compute_nominal_wage", "compute_number_firms"}

\* An analytic island value: quantity t of city h under the params version.
Island(t, h, ver) == [t |-> t, a |-> h, b |-> ver]

\* SingleCityModel.solution: np.hstack((P0, Y0, W0, M0)), evaluated with the
\* single-city model's own params.
CitySolution(p) ==
    <<One, Island("Y0", 0, p.ver), Island("W0", 0, p.ver), Island("M0", 0, p.ver)>>

\* -------------------------------------------------- solvers.IslandsGuess
\* IslandsGuess.guess for n = self.number_cities: P0 = repeat(1.0, n-1),
\* Y0, W0, M0 = empty(n), filled city by city from the single-city model's
\* population[:n] and params, then hstack((P0, Y0, W0, M0)).  An entry of
\* an empty() array that the loop does not reach stays uninitialized.
islands_guess(n, pop, p) ==
    LET cities == Slice(pop, 0, n)
        filled(t) == [i \in 1..n |-> IF i <= Len(cities)
                                     THEN Island(t, cities[i].a, p.ver)
                                     ELSE [t |-> "uninitialized", a |-> i - 1, b |-> 0]]
    IN IF n - 1 < 0 THEN Raise("ValueError")
       ELSE IF cities # <<>> /\ ~(island_methods \subseteq city_attributes)
       THEN Raise("AttributeError")
       ELSE Return([i \in 1..(n - 1) |-> One]
                   \o filled("Y0") \o filled("W0") \o filled("M0"))

\* A read of IslandsGuess.guess.
IslandsGuessGet ==
    /\ constructed
    /\ pc # "loop"
    /\ IF ~number_cities.set
       THEN /\ last' = [op |-> "islands", n |-> 0, err |-> "AttributeError",
                        ret |-> <<>>]
            /\ UNCHANGED city
       ELSE LET cityParams == IF city.islands.built THEN city.islands.params ELSE params
                n == number_cities.val.val
                r == islands_guess(n, population, cityParams)
            IN /\ city' = IF n - 1 < 0 THEN city
                          ELSE [city EXCEPT !.islands = [built |-> TRUE, params |-> cityParams]]
               /\ last' = [op |-> "islands", n |-> n, err |-> r.err,
                           ret |-> IF r.raised THEN <<>> ELSE r.val]
    /\ UNCHANGED <<modelVars, solverVars, dataVars, prev, solver_kwargs,
                   solution, pc, step, target, solves>>

\* ------------------------------------------------- solvers.HotStartGuess
\* HotStartGuess._guess_next_city(h): (P0, Y0, W0, M0) for city h; looking up
\* a method the single-city model does not have raises AttributeError.
guess_next_city(h, p) ==
    IF ~(island_methods \subseteq city_attributes)
    THEN Raise("AttributeError")
    ELSE Return(<<One, Island("Y0", h, p.ver), Island("W0", h, p.ver),
                  Island("M0", h, p.ver)>>)

\* HotStartGuess.solver_kwargs = {method, with_jacobian}.
SetSolverKwargs(method, with_jacobian) ==
    /\ constructed
    /\ pc # "loop"
    /\ solver_kwargs' = [set |-> TRUE, method |-> method,
                         with_jacobian |-> with_jacobian]
    /\ last' = [op |-> "setSolverKwargs", err |-> "none"]
    /\ UNCHANGED <<modelVars, solverVars, dataVars, prev, city, solution, pc, step,
                   target, solves>>

\* HotStartGuess.guess up to the loop header: the single-city model is
\* created on first use with the model's params of that moment, its solution
\* is evaluated (a keyword call of the compiled island functions), and the
\* loop bound is read from model.number_cities.
HotBegin ==
    /\ constructed
    /\ pc # "loop"
    /\ LET cityParams == IF city.hot.built THEN city.hot.params ELSE params
       IN /\ city' = [city EXCEPT !.hot = [built |-> TRUE, params |-> cityParams]]
          /\ \E outcome \in BindOutcomes(single_city_args, 1, cityParams.keys) :
             IF outcome # "none"
             THEN /\ pc' = "raised"
                  /\ last' = [op |-> "hotbegin", err |-> outcome]
                  /\ UNCHANGED <<solution, step, target, solves>>
             ELSE IF ~number_cities.set
             THEN /\ pc' = "raised"
                  /\ solution' = CitySolution(cityParams)
                  /\ last' = [op |-> "hotbegin", err |-> "AttributeError"]
                  /\ UNCHANGED <<step, target, solves>>
             ELSE /\ pc' = "loop"
                  /\ solution' = CitySolution(cityParams)
                  /\ step' = 1
                  /\ target' = number_cities.val.val
                  /\ solves' = 0
                  /\ last' = [op |-> "hotbegin", err |-> "none",
                              start |-> CitySolution(cityParams)]
    /\ UNCHANGED <<modelVars, solverVars, dataVars, prev, solver_kwargs>>

\* One pass of the loop body for number_cities = step: split the current
\* solution, get the next city's island values, combine, set
\* model.number_cities, solve with a fresh Solver and adopt result.x.  The
\* success flag of the result is not looked at.
HotStep ==
    /\ pc = "loop"
    /\ step < target
    /\ LET k == step
           P == Slice(solution, 0, k - 1)
           Y == Slice(solution, k - 1, 2 * k - 1)
           W == Slice(solution, 2 * k - 1, 3 * k - 1)
           M == SliceFrom(solution, 3 * k - 1)
           next == guess_next_city(k, city.hot.params)
           split == [op |-> "hotstep", k |-> k, from |-> solution,
                     P |-> P, Y |-> Y, W |-> W, M |-> M]
       IN IF next.raised
          THEN /\ pc' = "raised"
               /\ last' = split @@ [err |-> next.err, guess |-> <<>>,
                                    solved |-> FALSE]
               /\ UNCHANGED <<modelVars, solution, step, solves>>
          ELSE LET initial_guess == P \o <<next.val[1]>> \o Y \o <<next.val[2]>>
                                    \o W \o <<next.val[3]>> \o M \o <<next.val[4]>>
               IN /\ number_cities' = Attr([kind |-> "int", val |-> k + 1])
                  /\ IF ~solver_kwargs.set
                     THEN /\ pc' = "raised"
                          /\ last' = split @@ [err |-> "AttributeError",
                                               guess |-> initial_guess,
                                               solved |-> FALSE]
                          /\ UNCHANGED <<symbolic_equations, solution, step, solves>>
                     ELSE \E outcome \in BindOutcomes(symbolic_args,
                                                      Len(call_positional),
                                                      params.keys) :
                          /\ symbolic_equations' =
                                IF symbolic_equations.built
                                THEN symbolic_equations ELSE Cached(EquationsGet)
                          /\ IF outcome # "none"
                             THEN /\ pc' = "raised"
                                  /\ last' = split @@ [err |-> outcome,
                                                       guess |-> initial_guess,
                                                       solved |-> FALSE]
                                  /\ UNCHANGED <<solution, step, solves>>
                             ELSE /\ pc' = "loop"
                                  /\ solution' = RootX(initial_guess)
                                  /\ step' = k + 1
                                  /\ solves' = solves + 1
                                  /\ last' = split @@ [err |-> "none",
                                                       guess |-> initial_guess,
                                                       solved |-> TRUE]
                  /\ UNCHANGED <<constructed, N, params, symbolic_jacobian,
                                 symbolic_variables>>
    /\ UNCHANGED <<solverVars, dataVars, prev, city, solver_kwargs, target>>

\* The loop is exhausted: guess returns the current solution.
C28MutantHotReturn ==
    /\ pc = "loop"
    /\ step >= target
    /\ pc' = "done"
    /\ number_cities' = Attr([kind |-> "int", val |-> step + 1])
    /\ last' = [op |-> "hotguess", err |-> "none", ret |-> solution,
                target |-> target, solves |-> solves]
    /\ UNCHANGED <<constructed, N, params, symbolic_equations, symbolic_jacobian,
                   symbolic_variables, solverVars, dataVars, prev, city,
                   solver_kwargs, solution, step, target, solves>>

HotReturn ==
    /\ pc = "loop"
    /\ step >= target
    /\ pc' = "done"
    /\ last' = [op |-> "hotguess", err |-> "none", ret |-> solution,
                target |-> target, solves |-> solves]
    /\ UNCHANGED <<modelVars, solverVars, dataVars, prev, city, solver_kwargs, solution,
                   step, target, solves>>

\* ------------------------------------------------------- model_dc (draft)
\* The lists the script builds for num_cities = n: every pass of its loop
\* over range(num_cities) appends four comprehensions over range(num_cities)
\* to each list.
RECURSIVE Repeated(_, _)
Repeated(block, times) ==
    IF times <= 0 THEN <<>> ELSE block \o Repeated(block, times - 1)

dc_endog_vars(n) ==
    Repeated(Indexed("P", Range(0, n)) \o Indexed("Y", Range(0, n))
             \o Indexed("W", Range(0, n)) \o Indexed("M", Range(0, n)), n)

dc_equations(n) ==
    Repeated(Indexed("goods_market_clearing", Range(0, n))
             \o Indexed("total_profits", Range(0, n))
             \o Indexed("labor_market_clearing", Range(0, n))
             \o Indexed("resource_constraint", Range(0, n)), n)

\* Running the script with num_cities = n.
RunModelDc(n) ==
    /\ last' = [op |-> "model_dc", n |-> n, err |-> "none",
                endog_vars |-> dc_endog_vars(n), equations |-> dc_equations(n)]
    /\ UNCHANGED <<modelVars, solverVars, prev, hotVars, dataVars>>

\* ------------------------------------------------- the repository's tests
\* The tests drive a model that exists already, with a Solver and guess
\* objects created for the test.
Zero == [t |-> "zero", a |-> 0, b |-> 0]

\* What self.solve(x0, ...) of a Solver created for the call can end with:
\* the exception of the first evaluation of Solver.system, or result.x.
SolveOutcomes(x0) ==
    LET errs == BindOutcomes(symbolic_args, Len(call_positional), params.keys)
    IN {Raise(e) : e \in errs \ {"none"}}
       \cup (IF "none" \in errs THEN {Return(RootX(x0))} ELSE {})

\* The loop of HotStartGuess.guess from number_cities = k on, as a function
\* of the current solution: the outcomes of the read, each with the value
\* model.number_cities is left with.
RECURSIVE HotLoop(_, _, _, _, _)
HotLoop(k, stop, sol, p, count) ==
    IF k >= stop THEN {[count |-> count] @@ Return(sol)}
    ELSE LET next == guess_next_city(k, p)
             initial_guess ==
                 Slice(sol, 0, k - 1) \o <<next.val[1]>>
                 \o Slice(sol, k - 1, 2 * k - 1) \o <<next.val[2]>>
                 \o Slice(sol, 2 * k - 1, 3 * k - 1) \o <<next.val[3]>>
                 \o SliceFrom(sol, 3 * k - 1) \o <<next.val[4]>>
         IN IF next.raised THEN {[count |-> count] @@ next}
            ELSE UNION {IF r.raised THEN {[count |-> k + 1] @@ r}
                        ELSE HotLoop(k + 1, stop, r.val, p, k + 1) :
                        r \in SolveOutcomes(initial_guess)}

\* A read of guess on a HotStartGuess created for the call, its
\* solver_kwargs set, with model.number_cities = n.
hot_start_guess(n, p) ==
    LET bound == BindOutcomes(single_city_args, 1, p.keys)
    IN {[count |-> n] @@ Raise(e) : e \in bound \ {"none"}}
       \cup (IF "none" \in bound THEN HotLoop(1, n, CitySolution(p), p, n) ELSE {})

\* The model's caches after a Solver created for the call compiled its
\* functions: the system always, the Jacobian when it was evaluated.
CompiledFor(jacobian_used) ==
    /\ symbolic_equations' =
          IF symbolic_equations.built THEN symbolic_equations
          ELSE Cached(EquationsGet)
    /\ IF jacobian_used /\ ~symbolic_jacobian.built
       THEN /\ symbolic_variables' = Cached(VariablesGet)
            /\ symbolic_jacobian' = Cached(JacobianGet)
       ELSE UNCHANGED <<symbolic_variables, symbolic_jacobian>>

\* test_initial_guesses for N = n: solve from IslandsGuess.guess, read
\* HotStartGuess.guess, compare the two vectors.
TestInitialGuesses(n) ==
    /\ constructed
    /\ pc # "loop"
    /\ LET cityParams == params
           g == islands_guess(n, population, cityParams)
           test == [op |-> "test_initial_guesses", n |-> n]
       IN /\ UNCHANGED city
          /\ IF g.raised
             THEN /\ number_cities' = Attr([kind |-> "int", val |-> n])
                  /\ last' = test @@ [err |-> g.err, at |-> "islands.guess",
                                      islands_x |-> <<>>, hot_x |-> <<>>]
                  /\ UNCHANGED <<symbolic_equations, symbolic_variables,
                                 symbolic_jacobian>>
             ELSE \E r \in SolveOutcomes(g.val) :
                  IF r.raised
                  THEN /\ number_cities' = Attr([kind |-> "int", val |-> n])
                       /\ CompiledFor(FALSE)
                       /\ last' = test @@ [err |-> r.err, at |-> "solver.solve",
                                           islands_x |-> <<>>, hot_x |-> <<>>]
                  ELSE \E h \in hot_start_guess(n, params) :
                       /\ number_cities' = Attr([kind |-> "int", val |-> h.count])
                       /\ CompiledFor(TRUE)
                       /\ last' = test @@
                             [err |-> h.err, at |-> "hot_start.guess",
                              islands_x |-> r.val,
                              hot_x |-> IF h.raised THEN <<>> ELSE h.val]
    /\ UNCHANGED <<constructed, N, params, solverVars, dataVars, prev,
                   solver_kwargs, solution, pc, step, target, solves>>

\* test_jacobians for N = n: solve from IslandsGuess.guess with the
\* finite-difference Jacobian, then with the analytic one, compare.
TestJacobians(n) ==
    /\ constructed
    /\ pc # "loop"
    /\ number_cities' = Attr([kind |-> "int", val |-> n])
    /\ LET cityParams == params
           g == islands_guess(n, population, cityParams)
           test == [op |-> "test_jacobians", n |-> n]
       IN /\ UNCHANGED city
          /\ IF g.raised
             THEN /\ last' = test @@ [err |-> g.err, at |-> "initial_guess.guess",
                                      approx_x |-> <<>>, exact_x |-> <<>>]
                  /\ UNCHANGED <<symbolic_equations, symbolic_variables,
                                 symbolic_jacobian>>
             ELSE \E approx \in SolveOutcomes(g.val) :
                  IF approx.raised
                  THEN /\ CompiledFor(FALSE)
                       /\ last' = test @@ [err |-> approx.err, at |-> "approx_jac",
                                           approx_x |-> <<>>, exact_x |-> <<>>]
                  ELSE \E exact \in SolveOutcomes(g.val) :
                       /\ CompiledFor(~exact.raised)
                       /\ last' = test @@
                             [err |-> exact.err, at |-> "exact_jac",
                              approx_x |-> approx.val,
                              exact_x |-> IF exact.raised THEN <<>> ELSE exact.val]
    /\ UNCHANGED <<constructed, N, params, solverVars, dataVars, prev,
                   solver_kwargs, solution, pc, step, target, solves>>

\* The value of the compiled system at X: one entry per compiled equation;
\* the analytic single-city solution (Y0, W0, M0 of city 0, price level 1.0)
\* is what sym.solve returned for the one-city equations.
Evaluate(fn, X, p) ==
    LET island == <<Island("Y0", 0, p.ver), Island("W0", 0, p.ver),
                    Island("M0", 0, p.ver)>>
    IN [i \in 1..Len(fn[2]) |->
           IF X = island /\ Len(fn[2]) = 3 THEN Zero
           ELSE [t |-> "residual", a |-> i, b |-> 0]]

\* test_residual: the residual of Solver.system at IslandsGuess.guess for
\* one city, compared with zeros(3).
TestResidual ==
    /\ constructed
    /\ pc # "loop"
    /\ number_cities' = Attr([kind |-> "int", val |-> 1])
    /\ LET cityParams == params
           g == islands_guess(1, population, cityParams)
           test == [op |-> "test_residual", expected |-> [i \in 1..3 |-> Zero]]
       IN /\ UNCHANGED city
          /\ IF g.raised
             THEN /\ last' = test @@ [err |-> g.err, at |-> "tmp_initial.guess",
                                      actual |-> <<>>]
                  /\ UNCHANGED symbolic_equations
             ELSE \E outcome \in BindOutcomes(symbolic_args, Len(call_positional),
                                              params.keys) :
                  /\ symbolic_equations' =
                        IF symbolic_equations.built THEN symbolic_equations
                        ELSE Cached(EquationsGet)
                  /\ last' = test @@
                        [err |-> outcome, at |-> "tmp_solver.system",
                         actual |-> IF outcome # "none" THEN <<>>
                                    ELSE Evaluate(<<symbolic_args, EquationsGet>>,
                                                  g.val, params)]
    /\ UNCHANGED <<constructed, N, params, symbolic_variables, symbolic_jacobian,
                   solverVars, dataVars, prev, solver_kwargs, solution, pc,
                   step, target, solves>>

\* ---------------------------------------------------------- specification
\* Assignments to a Model: the constructor and the setters.
Init ==
    /\ constructed = FALSE
    /\ N = 0
    /\ params = NoParams
    /\ number_cities = NoAttr
    /\ physical_distances = <<>>
    /\ population = <<>>
    /\ symbolic_equations = NoneVal
    /\ symbolic_jacobian = NoneVal
    /\ symbolic_variables = NoneVal
    /\ numeric_system = NoneVal
    /\ numeric_jacobian = NoneVal
    /\ city = [islands |-> NoCity, hot |-> NoCity]
    /\ solver_kwargs = NoKwargs
    /\ solution = <<>>
    /\ pc = "idle"
    /\ step = 0
    /\ target = 0
    /\ solves = 0
    /\ prev = NoneVal
    /\ last = [op |-> "none", err |-> "none"]

Next ==
    \/ \E value \in NumberValues, p \in ParamValues : Construct(value, p)
    \/ \E value \in NumberValues : SetN(value)
    \/ \E value \in NumberValues : SetNumberCities(value)
    \/ \E p \in ParamValues : SetParams(p)

Spec == Init /\ [][Next]_vars

\* A constructed Model whose city count and params are reassigned while its
\* symbolic artifacts are read.
AcceptedParams == {p \in ParamValues : ~validate_params(p).raised}

CacheInit ==
    /\ constructed = TRUE
    /\ N \in 1..MaxN
    /\ params \in AcceptedParams
    /\ number_cities = NoAttr
    /\ physical_distances = StoredDistances
    /\ population = StoredPopulation
    /\ symbolic_equations = NoneVal
    /\ symbolic_jacobian = NoneVal
    /\ symbolic_variables = NoneVal
    /\ numeric_system = NoneVal
    /\ numeric_jacobian = NoneVal
    /\ city = [islands |-> NoCity, hot |-> NoCity]
    /\ solver_kwargs = NoKwargs
    /\ solution = <<>>
    /\ pc = "idle"
    /\ step = 0
    /\ target = 0
    /\ solves = 0
    /\ prev = NoneVal
    /\ last = [op |-> "none", err |-> "none"]

CacheNext ==
    \/ \E value \in NumberValues : SetN(value)
    \/ \E p \in AcceptedParams : SetParams(p)
    \/ GetSymbolicEquations
    \/ GetSymbolicVariables
    \/ GetSymbolicJacobian

CacheSpec == CacheInit /\ [][CacheNext]_vars

\* A Solver bound to a constructed Model whose city count the caller
\* reassigns (through Model.N and through model.number_cities) between
\* evaluations.
IntCounts == {v \in NumberValues : v.kind = "int" /\ v.val >= 1}
SolverParams == {p \in AcceptedParams : p.ver = 1}

SolverInit ==
    /\ constructed = TRUE
    /\ N \in 1..MaxN
    /\ params \in SolverParams
    /\ number_cities = NoAttr
    /\ physical_distances = StoredDistances
    /\ population = StoredPopulation
    /\ symbolic_equations = NoneVal
    /\ symbolic_jacobian = NoneVal
    /\ symbolic_variables = NoneVal
    /\ numeric_system = NoneVal
    /\ numeric_jacobian = NoneVal
    /\ city = [islands |-> NoCity, hot |-> NoCity]
    /\ solver_kwargs = NoKwargs
    /\ solution = <<>>
    /\ pc = "idle"
    /\ step = 0
    /\ target = 0
    /\ solves = 0
    /\ prev = NoneVal
    /\ last = [op |-> "none", err |-> "none"]

SolverNext ==
    \/ \E value \in IntCounts : SetN(value)
    \/ \E value \in IntCounts : SetNumberCities(value)
    \/ \E X \in InputVectors : SolverSystem(X)
    \/ \E X \in InputVectors : SolverJacobian(X)

SolverSpec == SolverInit /\ [][SolverNext]_vars

\* A Solver bound to a constructed Model whose params the caller reassigns
\* between evaluations and solves.
SolveNext ==
    \/ \E value \in IntCounts : SetNumberCities(value)
    \/ \E p \in SolverParams : SetParams(p)
    \/ \E X \in InputVectors : SolverSystem(X)
    \/ \E X \in InputVectors : SolverJacobian(X)
    \/ \E x0 \in InputVectors, method \in Methods, with_jacobian \in BOOLEAN :
          SolverSolve(x0, method, with_jacobian)

SolveSpec == SolverInit /\ [][SolveNext]_vars

\* A HotStartGuess bound to a constructed Model: the caller assigns the city
\* count, the params and the solver keyword arguments between reads of guess.
IntValues == {v \in NumberValues : v.kind = "int"}

HotStartNext ==
    \/ \E value \in IntValues : pc # "loop" /\ SetNumberCities(value)
    \/ \E p \in AcceptedParams : pc # "loop" /\ SetParams(p)
    \/ \E method \in Methods, with_jacobian \in BOOLEAN :
          SetSolverKwargs(method, with_jacobian)
    \/ InitialGuessGet
    \/ HotBegin
    \/ HotStep
    \/ HotReturn

HotStartSpec == SolverInit /\ [][HotStartNext]_vars

\* An IslandsGuess bound to a constructed Model: the caller assigns the city
\* count and the params between reads of guess.
IslandsNext ==
    \/ \E value \in IntValues : SetNumberCities(value)
    \/ \E p \in AcceptedParams : SetParams(p)
    \/ IslandsGuessGet

IslandsSpec == SolverInit /\ [][IslandsNext]_vars

\* A Model constructed with data for DataCities cities whose city count is
\* reassigned between reads of its data and of its goods-market conditions.
DataInit == CacheInit /\ N = DataCities

DataNext ==
    \/ \E value \in NumberValues : SetN(value)
    \/ \E p \in AcceptedParams : SetParams(p)
    \/ GetPhysicalDistances
    \/ GetEconomicDistances
    \/ GetEffectiveLaborSupply
    \/ GoodsMarketBalance
    \/ \E n \in 1..MaxN : RunModelDc(n)

DataSpec == DataInit /\ [][DataNext]_vars

\* The repository's tests run, in any order and any number of times, against
\* a constructed Model whose city count and params are reassigned between
\* them.
TestNext ==
    \/ \E value \in IntCounts : SetN(value)
    \/ \E p \in AcceptedParams : SetParams(p)
    \/ \E n \in 1..MaxN : TestInitialGuesses(n)
    \/ \E n \in 1..MaxN : TestJacobians(n)
    \/ TestResidual

TestSpec == SolverInit /\ [][TestNext]_vars

\* A constructed Model whose N and params are assigned valid and invalid
\* values between reads of its symbolic artifacts.
AssignNext ==
    \/ \E value \in NumberValues : SetN(value)
    \/ \E p \in ParamValues : SetParams(p)
    \/ GetSymbolicEquations
    \/ GetSymbolicVariables
    \/ GetSymbolicJacobian

AssignSpec == CacheInit /\ [][AssignNext]_vars

\* ------------------------------------------------------------------ claims
\* A value the claims call a valid city count: an integer >= 1.
IsValidCityCount(value) == value.kind = "int" /\ value.val >= 1

\* Assignments that go through the Model.N property (setter, constructor)
\* succeed exactly for an integer >= 1 and raise AttributeError otherwise.
CityCountPropertyValidated ==
    /\ last.op = "setN" =>
          /\ (last.err = "none") <=> IsValidCityCount(last.arg)
          /\ last.err \in {"none", "AttributeError"}
          /\ last.err = "none" => N = last.arg.val
    /\ last.op = "init" =>
          /\ (last.setter # "N") <=> IsValidCityCount(last.arg)
          /\ last.setter = "N" => last.err = "AttributeError"

\* C1: assigning the model's city count, under either of its names (Model.N,
\* the constructor argument, model.number_cities), succeeds exactly when the
\* value is an integer >= 1 and raises AttributeError at the assignment
\* otherwise.
C1_CityCountValidated ==
    /\ CityCountPropertyValidated
    /\ last.op = "setNumberCities" =>
          /\ (last.err = "none") <=> IsValidCityCount(last.arg)
          /\ last.err \in {"none", "AttributeError"}

\* C2: assigning params (setter or constructor) raises AttributeError when
\* the value is not a mapping or lacks any one of f, beta, phi, tau, theta.
MustBeRejected(p) == ~p.isDict \/ ~(CompiledParams \subseteq p.keys)

C2_ParamsValidated ==
    /\ last.op = "setParams" /\ MustBeRejected(last.parg)
          => last.err = "AttributeError"
    /\ last.op = "init" /\ last.setter # "N" /\ MustBeRejected(last.parg)
          => last.setter = "params" /\ last.err = "AttributeError"

\* C4: every access to the symbolic equation list, variable list or Jacobian
\* returns the artifact built for the current N (lists of length 4N-1, a
\* (4N-1)x(4N-1) Jacobian), and no cache holds an artifact of another N.
C4_ArtifactsCurrent ==
    /\ last.op = "equations" =>
          last.ret = build_symbolic_equations(N) /\ Len(last.ret) = 4 * N - 1
    /\ last.op = "variables" =>
          last.ret = build_symbolic_variables(N) /\ Len(last.ret) = 4 * N - 1
    /\ last.op = "jacobian" =>
          /\ last.ret = build_symbolic_jacobian(build_symbolic_equations(N),
                                                build_symbolic_variables(N))
          /\ Len(last.ret[1]) = 4 * N - 1
          /\ Len(last.ret[2]) = 4 * N - 1
    /\ symbolic_equations.built => Len(symbolic_equations.val) = 4 * N - 1
    /\ symbolic_variables.built => Len(symbolic_variables.val) = 4 * N - 1
    /\ symbolic_jacobian.built =>
          /\ Len(symbolic_jacobian.val[1]) = 4 * N - 1
          /\ Len(symbolic_jacobian.val[2]) = 4 * N - 1

\* An access returned the current list after an N assignment had discarded
\* a cached list of another length.
C4_Witness ==
    /\ last.op = "equations"
    /\ prev.built
    /\ Len(prev.val) # Len(last.ret)

\* C6: the variable list is P[1..N-1], Y[0..N-1], W[0..N-1], M[0..N-1] and the
\* equation list is goods_market_clearing(1..N-1), total_profits(0..N-1),
\* labor_market_clearing(0..N-1), resource_constraint(0..N-1): position by
\* position, both of length 4N-1, P[0] and goods_market_clearing(0) absent.
BlockAt(i, n, first, second, third, fourth) ==
    IF i <= n - 1 THEN [name |-> first, h |-> i]
    ELSE IF i <= 2 * n - 1 THEN [name |-> second, h |-> i - n]
    ELSE IF i <= 3 * n - 1 THEN [name |-> third, h |-> i - 2 * n]
    ELSE [name |-> fourth, h |-> i - 3 * n]

C6_ListsOrdered ==
    /\ last.op = "variables" =>
          /\ Len(last.ret) = 4 * N - 1
          /\ \A i \in 1..Len(last.ret) :
                /\ last.ret[i] = BlockAt(i, N, "P", "Y", "W", "M")
                /\ last.ret[i] # [name |-> "P", h |-> 0]
    /\ last.op = "equations" =>
          /\ Len(last.ret) = 4 * N - 1
          /\ \A i \in 1..Len(last.ret) :
                /\ last.ret[i] = BlockAt(i, N, "goods_market_clearing", "total_profits",
                                         "labor_market_clearing", "resource_constraint")
                /\ last.ret[i] # [name |-> "goods_market_clearing", h |-> 0]
    /\ symbolic_equations.built /\ symbolic_variables.built =>
          Len(symbolic_equations.val) = Len(symbolic_variables.val)

\* The variable list of a model with at least two cities was read.
C6_Witness == last.op = "variables" /\ N >= 2 /\ Len(last.ret) = 4 * N - 1

\* C3: a params mapping the setter accepted never makes Solver.system or
\* Solver.jacobian fail on first use with a missing-parameter or an
\* unexpected-parameter error.
C3_AcceptedParamsBind ==
    last.op \in {"system", "jacobian_at"} /\ last.called =>
        last.err \notin {"TypeError: missing argument", "TypeError: unexpected keyword"}

\* C5: the compiled function Solver.system or Solver.jacobian evaluates is the
\* one compiled from the model's artifacts for its current city count N.
C5_CompiledForCurrentN ==
    /\ last.op = "system" /\ last.called =>
          last.fn = <<symbolic_args, build_symbolic_equations(N)>>
    /\ last.op = "jacobian_at" /\ last.called =>
          last.fn = <<symbolic_args,
                      build_symbolic_jacobian(build_symbolic_equations(N),
                                              build_symbolic_variables(N))>>

\* C7: for a city count n >= 1 (the one Solver reads, model.number_cities) and
\* X of length 4n-1, Solver.system and Solver.jacobian pass four blocks of
\* length n: P is 1.0 followed by X[0..n-2], Y = X[n-1..2n-2],
\* W = X[2n-1..3n-2], M = X[3n-1..4n-2]; the pieces are disjoint, in order and
\* cover X.
C7_BlocksPartitionX ==
    (/\ last.op \in {"system", "jacobian_at"}
     /\ last.called
     /\ last.n >= 1
     /\ Len(last.X) = 4 * last.n - 1)
    => /\ Len(last.P) = last.n
       /\ Len(last.Y) = last.n
       /\ Len(last.W) = last.n
       /\ Len(last.M) = last.n
       /\ last.P[1] = One
       /\ \A i \in 1..(last.n - 1) : last.P[i + 1] = last.X[i]
       /\ \A i \in 1..last.n :
             /\ last.Y[i] = last.X[last.n - 1 + i]
             /\ last.W[i] = last.X[2 * last.n - 1 + i]
             /\ last.M[i] = last.X[3 * last.n - 1 + i]
       /\ Tail(last.P) \o last.Y \o last.W \o last.M = last.X

\* Solver.system split an X of length 4n-1 for n >= 2 cities.
C7_Witness ==
    /\ last.op = "system"
    /\ last.called
    /\ last.n >= 2
    /\ Len(last.X) = 4 * last.n - 1

\* C8: Solver.solve invokes the root-finder exactly once with the caller's
\* initial guess and method and returns its result unchanged, raising no
\* exception (a non-converged result included).
C8_SolveReturnsRootResult ==
    last.op = "solve" =>
        /\ last.rootCalls = 1
        /\ last.rootX0 = last.x0
        /\ last.rootMethod = last.method
        /\ last.err = "none"
        /\ last.returned
        /\ last.ret = last.rootRet

\* C9: Solver.solve hands Solver.jacobian to the root-finder exactly when
\* with_jacobian is true; when it is false no callable is handed over and
\* Solver.jacobian is not evaluated during the solve.
C9_JacobianPassedIffFlag ==
    last.op = "solve" =>
        /\ (last.rootJac = "Solver.jacobian") <=> last.with_jacobian
        /\ ~last.with_jacobian => last.rootJac = "False" /\ last.jacobianEvals = 0

\* A solve with with_jacobian = False reached the root-finder.
C9_Witness ==
    /\ last.op = "solve"
    /\ ~last.with_jacobian
    /\ last.rootCalls = 1
    /\ last.rootJac = "False"

\* C10: HotStartGuess.guess starts from the N=1 analytic solution and performs
\* exactly N-1 solves, for city counts 2..N in increasing order; the guess of
\* the solve for k+1 cities has length 4(k+1)-1 and is built from the result
\* for k cities; for N = 1 no solve is performed.
C10_ContinuationSteps ==
    /\ last.op = "hotstep" =>
          /\ last.err = "none"
          /\ last.solved
          /\ Len(last.from) = 4 * last.k - 1
          /\ Len(last.guess) = 4 * (last.k + 1) - 1
    /\ last.op = "hotguess" =>
          last.solves = (IF last.target >= 1 THEN last.target - 1 ELSE 0)

\* C12: for every target N >= 1 (N = 1 included, where no continuation step
\* runs) the vector HotStartGuess.guess returns has length 4N-1.
C12_HotGuessLength ==
    (last.op = "hotguess" /\ last.target >= 1) =>
        Len(last.ret) = 4 * last.target - 1

\* C13: for every N >= 1 IslandsGuess.guess has length 4N-1, its first N-1
\* entries are all 1.0, and the entries Y0[h], W0[h], M0[h] are the island
\* values of city h, computed from population[h] and params alone.
C13_IslandsGuess ==
    (last.op = "islands" /\ last.n >= 1) =>
        /\ last.err = "none"
        /\ Len(last.ret) = 4 * last.n - 1
        /\ \A i \in 1..(last.n - 1) : last.ret[i] = One
        /\ \A h \in 0..(last.n - 1) :
              /\ last.ret[last.n + h].t = "Y0" /\ last.ret[last.n + h].a = h
              /\ last.ret[2 * last.n + h].t = "W0" /\ last.ret[2 * last.n + h].a = h
              /\ last.ret[3 * last.n + h].t = "M0" /\ last.ret[3 * last.n + h].a = h

\* How often term x occurs in the sum s.
Count(s, x) == Cardinality({i \in DOMAIN s : s[i] = x})
Terms(s) == {s[i] : i \in DOMAIN s}

\* C14: the sum over all cities of goods_market_clearing(h) =
\* total_exports(h) - total_imports(h) is identically 0: every term added is
\* subtracted as often; for N = 1 goods_market_clearing(0) itself is 0.
C14_WalrasLaw ==
    last.op = "balance" =>
        /\ \A x \in Terms(last.ret.plus) \cup Terms(last.ret.minus) :
              Count(last.ret.plus, x) = Count(last.ret.minus, x)
        /\ last.n = 1 => last.first.plus = last.first.minus

\* The sum for two or more cities, where no single city's condition cancels
\* by itself.
C14_Witness ==
    /\ last.op = "balance"
    /\ last.n >= 2
    /\ Len(last.ret.plus) = last.n * last.n
    /\ last.first.plus # last.first.minus

\* C15: after any sequence of city-count assignments effective_labor_supply
\* has exactly N entries, entry h being beta * population[h].
C15_LaborSupplySized ==
    last.op = "effective_labor_supply" =>
        /\ Len(last.ret) = last.n
        /\ \A h \in 1..Len(last.ret) :
              last.ret[h] = [t |-> "beta*", of |-> population[h]]

\* C16: after any sequence of city-count assignments the distances read
\* through the model are the leading N x N block of the stored matrix for
\* the current N.
C16_DistancesSized ==
    /\ last.op = "physical_distances" =>
          /\ last.n = N
          /\ Len(last.ret) = N
          /\ \A i \in 1..N :
                /\ Len(last.ret[i]) = N
                /\ \A j \in 1..N : last.ret[i][j] = physical_distances[i][j]
    /\ last.op = "economic_distances" =>
          /\ last.n = N
          /\ Len(last.ret) = N
          /\ \A i \in 1..N :
                /\ Len(last.ret[i]) = N
                /\ \A j \in 1..N :
                      last.ret[i][j] = [t |-> "exp^tau", of |-> physical_distances[i][j]]

\* Distances read after the city count was lowered from the size of the data.
C16_Witness ==
    /\ last.op = "economic_distances"
    /\ last.n < DataCities
    /\ Len(last.ret) = last.n

\* C17: assigning params a mapping that contains every required key plus
\* extra keys is accepted and becomes the model's params.
C17_ExtraKeysTolerated ==
    (/\ last.op = "setParams"
     /\ last.parg.isDict
     /\ CompiledParams \subseteq last.parg.keys) =>
        last.err = "none" /\ params = last.parg

\* An accepted mapping with a key beyond the required ones.
C17_Witness ==
    /\ last.op = "setParams"
    /\ last.err = "none"
    /\ last.parg.keys \ CompiledParams # {}
    /\ CompiledParams \subseteq last.parg.keys
    /\ params = last.parg

\* C18: the arguments Solver.system and Solver.jacobian pass to the compiled
\* function (P, Y, W, M, population, then f, beta, phi, tau, theta by name)
\* bind one-to-one to the placeholders it was compiled with: with params
\* holding exactly those five names the call binds without error.
C18_ArgumentsMatchPlaceholders ==
    (/\ last.op \in {"system", "jacobian_at"}
     /\ last.called
     /\ params.keys = CompiledParams) =>
        last.err = "none"

\* C19: reading guess on the base InitialGuess class raises
\* NotImplementedError and produces no vector.
C19_BaseGuessNotImplemented ==
    last.op = "baseguess" =>
        last.err = "NotImplementedError" /\ ~last.produced

\* The base-class guess read on a model whose city count was assigned.
C19_Witness ==
    /\ last.op = "baseguess"
    /\ number_cities.set
    /\ last.err = "NotImplementedError"

\* C21: for the same model and target N, solving from IslandsGuess.guess and
\* the HotStartGuess continuation give the same equilibrium vector.
C21_StrategiesAgree ==
    last.op = "test_initial_guesses" =>
        /\ last.err = "none"
        /\ Len(last.islands_x) = 4 * last.n - 1
        /\ last.islands_x = last.hot_x

\* C22: for the same model, city count and initial guess, Solver.solve with
\* the analytic Jacobian and with the finite-difference Jacobian return
\* equal solution vectors.
C22_JacobianModesAgree ==
    last.op = "test_jacobians" =>
        /\ last.err = "none"
        /\ Len(last.approx_x) = 4 * last.n - 1
        /\ last.approx_x = last.exact_x

\* C23: for N = 1 the analytic island solution with price level 1.0 makes
\* all three residuals of Solver.system zero.
C23_IslandIsEquilibrium ==
    last.op = "test_residual" =>
        /\ last.err = "none"
        /\ last.actual = last.expected

\* C24: the city count Solver and the guess strategies read from the model
\* (model.number_cities) always equals Model.N.
C24_CityCountsAgree ==
    constructed => number_cities.set /\ number_cities.val.val = N

\* C25: at continuation step k HotStartGuess splits the previous solution of
\* length 4k-1 into P (k-1 entries), Y, W, M (k entries each) and forms the
\* next guess [P, 1.0, Y, Y_new, W, W_new, M, M_new] with the island values
\* of city k.
C25_SplitAndAppend ==
    last.op = "hotstep" =>
        /\ Len(last.from) = 4 * last.k - 1
        /\ Len(last.P) = last.k - 1
        /\ Len(last.Y) = last.k /\ Len(last.W) = last.k /\ Len(last.M) = last.k
        /\ last.from = last.P \o last.Y \o last.W \o last.M
        /\ Len(last.guess) = 4 * (last.k + 1) - 1
        /\ \E y, w, m \in {last.guess[i] : i \in DOMAIN last.guess} :
              /\ y.t = "Y0" /\ w.t = "W0" /\ m.t = "M0"
              /\ y.a = last.k /\ w.a = last.k /\ m.a = last.k
              /\ last.guess = last.P \o <<One>> \o last.Y \o <<y>>
                              \o last.W \o <<w>> \o last.M \o <<m>>

\* C26: a read of HotStartGuess.guess starts from the island solution for
\* the model's current params, also after params was reassigned.
C26_GuessUsesCurrentParams ==
    (last.op = "hotbegin" /\ last.err = "none") =>
        /\ city.hot.params = params
        /\ last.start = CitySolution(params)

\* C27: an assignment of N or params that raises the validation error leaves
\* N, params and the cached symbolic artifacts as they were.
C27_RejectedChangesNothing ==
    [][(last'.op \in {"setN", "setParams"} /\ last'.err # "none") =>
          UNCHANGED <<N, params, symbolic_equations, symbolic_jacobian,
                      symbolic_variables>>]_vars

\* A rejected N assignment on a model whose artifacts were built.
C27_Witness ==
    /\ last.op = "setN"
    /\ last.err = "AttributeError"
    /\ symbolic_equations.built
    /\ symbolic_jacobian.built

\* C29: assigning a valid params mapping changes only params: N is unchanged
\* and no cached symbolic artifact is cleared or rebuilt.
C29_ParamsAssignmentFrame ==
    [][(last'.op = "setParams" /\ last'.err = "none") =>
          /\ params' = last'.parg
          /\ UNCHANGED <<N, number_cities, symbolic_equations, symbolic_jacobian,
                         symbolic_variables, dataVars>>]_vars

\* A valid params assignment on a model whose artifacts were built.
C29_Witness ==
    /\ last.op = "setParams"
    /\ last.err = "none"
    /\ params = last.parg
    /\ symbolic_equations.built
    /\ symbolic_jacobian.built

C30_DraftNormalized ==
    last.op = "model_dc" =>
        /\ Len(last.endog_vars) = 4 * last.n - 1
        /\ Len(last.equations) = 4 * last.n - 1
        /\ [name |-> "P", h |-> 0] \notin Terms(last.endog_vars)
        /\ \A h \in 1..(last.n - 1) : [name |-> "P", h |-> h] \in Terms(last.endog_vars)
        /\ [name |-> "goods_market_clearing", h |-> 0] \notin Terms(last.equations)
        /\ \A x \in Terms(last.endog_vars) : Count(last.endog_vars, x) = 1
        /\ \A x \in Terms(last.equations) : Count(last.equations, x) = 1

====
